---- MODULE Spec2Model ----
(***************************************************************************)
(* Advent of Code cog (bot/exts/christmas/advent_of_code/_cog.py).         *)
(*                                                                         *)
(* The two background coroutines countdown_status and day_countdown run    *)
(* as cooperative tasks on one event loop.  A task is either runnable      *)
(* (its await has completed), asleep until a wake time, or finished.       *)
(* Wall-clock time is `now` whole seconds since the midnight that opens    *)
(* day 0, plus a sub-second part recorded by `sub` (TRUE when the clock    *)
(* is strictly between two whole seconds).  Sleeps are requested in whole  *)
(* seconds, so `sub` is constant along a run.                              *)
(***************************************************************************)
EXTENDS Integers, Sequences, FiniteSets, TLC

VARIABLES
    now,          \* whole seconds of the wall clock (EST)
    sub,          \* TRUE iff the clock has a non-zero sub-second part
    unloaded,     \* cog_unload has run
    presence,     \* activity last published with bot.change_presence
    st_pc,        \* countdown_status: position of the task
    st_wake,      \* countdown_status: time its asyncio.sleep ends
    st_seconds,   \* countdown_status: time_left.seconds of this iteration
    st_playing,   \* countdown_status: `playing` of this iteration
    st_at,        \* countdown_status: the time this iteration read the clock
    st_delay,     \* countdown_status: `delay` of this iteration
    st_slept,     \* countdown_status: a sleep has been started
    dc_pc,        \* day_countdown: position of the task
    dc_exit,      \* day_countdown: why the task ended
    dc_wake,      \* day_countdown: time its asyncio.sleep ends
    dc_tomorrow,  \* day_countdown: `tomorrow` (the midnight instant) of this iteration
    dc_retry,     \* day_countdown: `retry` of the for loop
    dc_dev,       \* day_countdown: deviation of this iteration's first sleep
    dc_found,     \* day_countdown: what the channel and role lookups found
    dc_statuses,  \* day_countdown: resp.status of the polls of this iteration
    dc_sent,      \* day_countdown: messages sent in this iteration
    dc_fatal,     \* day_countdown: first condition met that ends the loop
    dc_trace,     \* day_countdown: the steps of this iteration, in order
    announced,    \* days announced with channel.send, in order
    created,      \* tasks created with loop.create_task, per coroutine
    role_exists,  \* the guild has a role with id AocConfig.role_id
    has_role,     \* the invoking member holds that role
    displayed,    \* AocConfig.leaderboard_displayed_members
    cache,        \* the cached leaderboard: <<>> or <<number_of_participants>>
    last          \* the last command handled: its inputs and what it did

vars == <<now, sub, unloaded, presence,
          st_pc, st_wake, st_seconds, st_playing, st_at, st_delay, st_slept,
          dc_pc, dc_exit, dc_wake, dc_tomorrow, dc_retry, dc_dev, dc_found,
          dc_statuses, dc_sent, dc_fatal, dc_trace, announced,
          created, role_exists, has_role, displayed, cache, last>>

st_vars == <<presence, st_pc, st_wake, st_seconds, st_playing, st_at, st_delay,
             st_slept>>

dc_vars == <<dc_pc, dc_exit, dc_wake, dc_tomorrow, dc_retry, dc_dev, dc_found,
             dc_statuses, dc_sent, dc_fatal, dc_trace, announced>>

cmd_vars == <<role_exists, has_role, displayed, cache, last>>

bg_vars == <<now, sub, unloaded, st_vars, dc_vars, created>>

-----------------------------------------------------------------------------
(* Program constants *)

COUNTDOWN_STEP == 60 * 5

POLL_ATTEMPTS == 4

POLL_INTERVAL == 10

ANNOUNCE_MARGIN == 1

ANNOUNCE_COOLDOWN == 120

HTTP_OK == 200

HTTP_NOT_FOUND == 404

DAY == 24 * 3600

(* Bounds of the model *)

\* The event window is days 1..LastAdventDay; day 0 precedes it.
LastAdventDay == 2

\* Largest number of seconds a sleep may last longer than requested.
MaxLate == 1

\* Instants (whole seconds) at which the cog may be constructed.
StartTimes ==
    { DAY - 100,          \* before the window opens
      2 * DAY - 10000,    \* some hours before a midnight
      2 * DAY,            \* at a midnight
      2 * DAY + 70 }      \* shortly after a midnight

\* The instant the event window closes.
WindowClose == (LastAdventDay + 1) * DAY

-----------------------------------------------------------------------------
(* _helpers (not part of the module under study) *)

\* is_in_advent(): the event window is open at time t.
is_in_advent(t) == (t \div DAY) \in 1..LastAdventDay

\* `tomorrow` of time_left_to_aoc_midnight(): the first midnight after today's.
Tomorrow(t) == (t - (t % DAY)) + DAY

\* `time_left` of time_left_to_aoc_midnight() as a normalised timedelta;
\* micro = 1 stands for any non-zero microseconds field.
time_left_to_aoc_midnight(t, sb) ==
    LET whole == Tomorrow(t) - t
    IN  IF sb
        THEN [days |-> 0, seconds |-> whole - 1, micro |-> 1]
        ELSE [days |-> whole \div DAY, seconds |-> whole % DAY, micro |-> 0]

\* tomorrow.day, counted in days since day 0.
DayOf(midnight) == midnight \div DAY

\* The clock reading of t whole seconds (plus a sub-second part when sb) is
\* strictly later than the midnight `boundary`.
StrictlyAfter(t, sb, boundary) == t > boundary \/ (t = boundary /\ sb)

-----------------------------------------------------------------------------
(* countdown_status: the pure part *)

\* int(math.ceil(seconds / COUNTDOWN_STEP)) * COUNTDOWN_STEP
aligned_seconds(seconds) ==
    ((seconds + COUNTDOWN_STEP - 1) \div COUNTDOWN_STEP) * COUNTDOWN_STEP

hours_of(aligned) == aligned \div 3600

minutes_of(aligned) == (aligned \div 60) % 60

\* playing_of with the `hours == 0` test placed before the one-step test.
playing_of_hoursFirst(seconds) ==
    LET aligned == aligned_seconds(seconds)
        hours   == hours_of(aligned)
        minutes == minutes_of(aligned)
    IN  IF aligned = 0 THEN <<"right now!">>
        ELSE IF hours = 0 THEN <<"in ", minutes, " minutes">>
        ELSE IF aligned = COUNTDOWN_STEP THEN <<"in less than ", minutes, " minutes">>
        ELSE IF hours = 23 THEN <<"since ", 60 - minutes, " minutes ago">>
        ELSE <<"in ", hours, " hours and ", minutes, " minutes">>

\* playing_of with `hours >= 22` in place of `hours == 23`.
playing_of_sinceWide(seconds) ==
    LET aligned == aligned_seconds(seconds)
        hours   == hours_of(aligned)
        minutes == minutes_of(aligned)
    IN  IF aligned = 0 THEN <<"right now!">>
        ELSE IF aligned = COUNTDOWN_STEP THEN <<"in less than ", minutes, " minutes">>
        ELSE IF hours = 0 THEN <<"in ", minutes, " minutes">>
        ELSE IF hours >= 22 THEN <<"since ", 60 - minutes, " minutes ago">>
        ELSE <<"in ", hours, " hours and ", minutes, " minutes">>

\* The f-string chosen by the if/elif chain, as its literal parts and numbers.
playing_of(seconds) ==
    LET aligned == aligned_seconds(seconds)
        hours   == hours_of(aligned)
        minutes == minutes_of(aligned)
    IN  IF aligned = 0 THEN <<"right now!">>
        ELSE IF aligned = COUNTDOWN_STEP THEN <<"in less than ", minutes, " minutes">>
        ELSE IF hours = 0 THEN <<"in ", minutes, " minutes">>
        ELSE IF hours = 23 THEN <<"since ", 60 - minutes, " minutes ago">>
        ELSE <<"in ", hours, " hours and ", minutes, " minutes">>

\* delay_of without the `or COUNTDOWN_STEP`.
delay_of_noFullStep(seconds) == seconds % COUNTDOWN_STEP

\* delay_of that always sleeps a full step.
delay_of_alwaysStep(seconds) == COUNTDOWN_STEP

\* time_left.seconds % COUNTDOWN_STEP or COUNTDOWN_STEP
delay_of(seconds) ==
    IF seconds % COUNTDOWN_STEP # 0 THEN seconds % COUNTDOWN_STEP ELSE COUNTDOWN_STEP

-----------------------------------------------------------------------------
(* The event loop *)

Max(a, b) == IF a >= b THEN a ELSE b

Min(a, b) == IF a <= b THEN a ELSE b

\* How far the end of a sleep may deviate from the requested length.
\* The sleep before the announcement may end early by up to the cooldown
\* (the case the cooldown's comment guards against) or late by MaxLate.
FirstSleepDevs == {0 - ANNOUNCE_COOLDOWN, 0, MaxLate}

\* The time at which `await asyncio.sleep(d)` returns when it deviates by dev.
SleepEnd(d, dev) == now + Max(0, d + dev)

Finished == {"done", "failed", "cancelled"}

st_Runnable == st_pc = "presence" \/ (st_pc = "loop" /\ now >= st_wake)

st_Asleep == st_pc = "loop" /\ now < st_wake

dc_Runnable ==
    \/ dc_pc \in {"head", "send"}
    \/ (dc_pc \in {"loop", "sleep", "retry_sleep"} /\ now >= dc_wake)

dc_Asleep == dc_pc \in {"loop", "sleep", "retry_sleep"} /\ now < dc_wake

\* Time passes while every task is suspended in a sleep: the clock moves to
\* the earliest wake time.
Tick ==
    /\ ~st_Runnable /\ ~dc_Runnable
    /\ st_Asleep \/ dc_Asleep
    /\ now' = IF st_Asleep /\ dc_Asleep THEN Min(st_wake, dc_wake)
              ELSE IF st_Asleep THEN st_wake ELSE dc_wake
    /\ UNCHANGED <<sub, unloaded, st_vars, dc_vars>>
    /\ UNCHANGED <<created, cmd_vars>>

-----------------------------------------------------------------------------
(* countdown_status *)

\* st_Loop that runs its body once before it first checks the window.
st_Loop_bodyFirst ==
    /\ st_pc = "loop" /\ now >= st_wake
    /\ IF is_in_advent(now) \/ ~st_slept
       THEN LET time_left == time_left_to_aoc_midnight(now, sub)
            IN  /\ st_at' = now
                /\ st_seconds' = time_left.seconds
                /\ st_playing' = playing_of(time_left.seconds)
                /\ st_pc' = "presence"
       ELSE /\ st_pc' = "done"
            /\ UNCHANGED <<st_at, st_seconds, st_playing>>
    /\ UNCHANGED <<now, sub, unloaded, presence, st_wake, st_delay, st_slept, dc_vars>>
    /\ UNCHANGED <<created, cmd_vars>>

\* `while _helpers.is_in_advent():` and the body up to the await of
\* bot.change_presence.
st_Loop ==
    /\ st_pc = "loop" /\ now >= st_wake
    /\ IF is_in_advent(now)
       THEN LET time_left == time_left_to_aoc_midnight(now, sub)
            IN  /\ st_at' = now
                /\ st_seconds' = time_left.seconds
                /\ st_playing' = playing_of(time_left.seconds)
                /\ st_pc' = "presence"
       ELSE /\ st_pc' = "done"
            /\ UNCHANGED <<st_at, st_seconds, st_playing>>
    /\ UNCHANGED <<now, sub, unloaded, presence, st_wake, st_delay, st_slept, dc_vars>>
    /\ UNCHANGED <<created, cmd_vars>>

\* bot.change_presence returns (or raises), then the task computes `delay`
\* and sleeps; this sleep lasts exactly as long as requested.
st_Presence(ok) ==
    /\ st_pc = "presence"
    /\ IF ok
       THEN /\ presence' = st_playing
            /\ st_delay' = delay_of(st_seconds)
            /\ st_wake' = SleepEnd(delay_of(st_seconds), 0)
            /\ st_pc' = "loop"
            /\ st_slept' = TRUE
       ELSE /\ st_pc' = "failed"
            /\ UNCHANGED <<presence, st_wake, st_delay, st_slept>>
    /\ UNCHANGED <<now, sub, unloaded, st_seconds, st_playing, st_at, dc_vars>>
    /\ UNCHANGED <<created, cmd_vars>>

-----------------------------------------------------------------------------
(* day_countdown *)

\* The lookups that found something, in the order they are made: the role
\* is looked up on the channel's guild, so only when the channel was found.
ResolveSteps(channel, role) ==
    IF ~channel THEN <<>>
    ELSE IF ~role THEN <<"channel">>
    ELSE <<"channel", "role">>

\* ResolveOutcome without the `if not aoc_role` test.
ResolveOutcome_noRoleCheck(channel, role) ==
    IF ~channel THEN "channel" ELSE "ok"

\* Outcome of the two lookups: which `break` is taken, if any.
ResolveOutcome(channel, role) ==
    IF ~channel THEN "channel"
    ELSE IF ~role THEN "role"
    ELSE "ok"

\* HasNextRetry for `range(1, 6)`.
HasNextRetry_fiveAttempts(retry) == retry < POLL_ATTEMPTS + 1

\* The for loop `for retry in range(1, 5)` has another value after `retry`.
HasNextRetry(retry) == retry < POLL_ATTEMPTS

\* `while _helpers.is_in_advent():` and the body up to the first sleep.
dc_Loop(dev) ==
    /\ dc_pc = "loop" /\ now >= dc_wake
    /\ IF is_in_advent(now)
       THEN LET time_left == time_left_to_aoc_midnight(now, sub)
            IN  /\ time_left.seconds + ANNOUNCE_MARGIN + dev >= 0
                /\ dc_tomorrow' = Tomorrow(now)
                /\ dc_wake' = SleepEnd(time_left.seconds + ANNOUNCE_MARGIN, dev)
                /\ dc_dev' = dev
                /\ dc_pc' = "sleep"
                /\ dc_retry' = 0
                /\ dc_found' = <<>>
                /\ dc_statuses' = <<>>
                /\ dc_sent' = 0
                /\ dc_trace' = <<"window">>
                /\ UNCHANGED <<dc_exit, dc_fatal>>
       ELSE /\ dev = 0
            /\ dc_pc' = "done"
            /\ dc_exit' = "window"
            /\ dc_fatal' = IF dc_fatal = "" THEN "window" ELSE dc_fatal
            /\ UNCHANGED <<dc_wake, dc_tomorrow, dc_retry, dc_dev, dc_found,
                           dc_statuses, dc_sent, dc_trace>>
    /\ UNCHANGED <<now, sub, unloaded, st_vars, announced>>
    /\ UNCHANGED <<created, cmd_vars>>

\* dc_Resolve with `continue` in place of the two `break`s.
dc_Resolve_continue(channel, role) ==
    /\ dc_pc = "sleep" /\ now >= dc_wake
    /\ dc_found' = <<channel, role>>
    /\ dc_trace' = dc_trace \o <<"sleep">> \o ResolveSteps(channel, role)
    /\ dc_fatal' = IF dc_fatal = "" /\ ~(channel /\ role) THEN "lookup" ELSE dc_fatal
    /\ LET outcome == ResolveOutcome(channel, role)
       IN  IF outcome = "ok"
           THEN /\ dc_pc' = "head"
                /\ dc_retry' = 1
                /\ UNCHANGED dc_exit
           ELSE /\ dc_pc' = "loop"
                /\ UNCHANGED <<dc_exit, dc_retry>>
    /\ UNCHANGED <<now, sub, unloaded, st_vars,
                   dc_wake, dc_tomorrow, dc_dev, dc_statuses, dc_sent, announced>>
    /\ UNCHANGED <<created, cmd_vars>>

\* The sleep has ended: bot.get_channel, channel.guild.get_role, and entry
\* into the for loop up to the await of the first HEAD request.
dc_Resolve(channel, role) ==
    /\ dc_pc = "sleep" /\ now >= dc_wake
    /\ dc_found' = <<channel, role>>
    /\ dc_trace' = dc_trace \o <<"sleep">> \o ResolveSteps(channel, role)
    /\ dc_fatal' = IF dc_fatal = "" /\ ~(channel /\ role) THEN "lookup" ELSE dc_fatal
    /\ LET outcome == ResolveOutcome(channel, role)
       IN  IF outcome = "ok"
           THEN /\ dc_pc' = "head"
                /\ dc_retry' = 1
                /\ UNCHANGED dc_exit
           ELSE /\ dc_pc' = "done"
                /\ dc_exit' = outcome
                /\ UNCHANGED dc_retry
    /\ UNCHANGED <<now, sub, unloaded, st_vars,
                   dc_wake, dc_tomorrow, dc_dev, dc_statuses, dc_sent, announced>>
    /\ UNCHANGED <<created, cmd_vars>>

\* The HEAD request returns a status (or raises).
dc_Head(ok, status) ==
    /\ dc_pc = "head"
    /\ IF ~ok
       THEN /\ dc_pc' = "failed"
            /\ dc_exit' = "error"
            /\ UNCHANGED <<dc_wake, dc_statuses, dc_trace>>
       ELSE /\ dc_statuses' = Append(dc_statuses, status)
            /\ dc_trace' = Append(dc_trace, "poll")
            /\ UNCHANGED dc_exit
            /\ IF status = HTTP_OK
               THEN /\ dc_pc' = "send"
                    /\ UNCHANGED dc_wake
               ELSE /\ dc_pc' = "retry_sleep"
                    /\ dc_wake' = SleepEnd(POLL_INTERVAL, 0)
    /\ UNCHANGED <<now, sub, unloaded, st_vars, dc_tomorrow, dc_retry, dc_dev, dc_found,
                   dc_sent, dc_fatal, announced>>
    /\ UNCHANGED <<created, cmd_vars>>

\* dc_RetrySleep for a for loop without its `else: break`.
dc_RetrySleep_noElse ==
    /\ dc_pc = "retry_sleep" /\ now >= dc_wake
    /\ dc_fatal' = IF dc_fatal = "" /\ Len(dc_statuses) = 4 THEN "puzzle" ELSE dc_fatal
    /\ IF HasNextRetry(dc_retry)
       THEN /\ dc_retry' = dc_retry + 1
            /\ dc_pc' = "head"
       ELSE /\ dc_pc' = "send"
            /\ UNCHANGED dc_retry
    /\ UNCHANGED <<now, sub, unloaded, st_vars, dc_exit,
                   dc_wake, dc_tomorrow, dc_dev, dc_found, dc_statuses, dc_sent, dc_trace,
                   announced>>
    /\ UNCHANGED <<created, cmd_vars>>

\* asyncio.sleep(10) has ended: the next attempt, or the for loop's else.
dc_RetrySleep ==
    /\ dc_pc = "retry_sleep" /\ now >= dc_wake
    /\ dc_fatal' = IF dc_fatal = "" /\ Len(dc_statuses) = 4 THEN "puzzle" ELSE dc_fatal
    /\ IF HasNextRetry(dc_retry)
       THEN /\ dc_retry' = dc_retry + 1
            /\ dc_pc' = "head"
            /\ UNCHANGED dc_exit
       ELSE /\ dc_pc' = "done"
            /\ dc_exit' = "puzzle"
            /\ UNCHANGED dc_retry
    /\ UNCHANGED <<now, sub, unloaded, st_vars,
                   dc_wake, dc_tomorrow, dc_dev, dc_found, dc_statuses, dc_sent, dc_trace,
                   announced>>
    /\ UNCHANGED <<created, cmd_vars>>

\* channel.send returns (or raises), then the cooldown sleep begins.
dc_Send(ok) ==
    /\ dc_pc = "send"
    /\ IF ok
       THEN /\ announced' = Append(announced, DayOf(dc_tomorrow))
            /\ dc_sent' = dc_sent + 1
            /\ dc_trace' = Append(dc_trace, "send")
            /\ dc_pc' = "loop"
            /\ dc_wake' = SleepEnd(ANNOUNCE_COOLDOWN, 0)
            /\ UNCHANGED dc_exit
       ELSE /\ dc_pc' = "failed"
            /\ dc_exit' = "error"
            /\ UNCHANGED <<announced, dc_sent, dc_wake, dc_trace>>
    /\ UNCHANGED <<now, sub, unloaded, st_vars, dc_tomorrow, dc_retry, dc_dev, dc_found,
                   dc_statuses, dc_fatal>>
    /\ UNCHANGED <<created, cmd_vars>>

-----------------------------------------------------------------------------
(* Commands *)

\* Largest number_of_participants of a fetched leaderboard, and largest
\* configured leaderboard_displayed_members.
MaxParticipants == 10

\* A call a handler makes on the chat platform or on _helpers: `text` names
\* the message, `n` is the number rendered in it, `code` the join code it
\* contains ("" when it contains none).
Effect(call, text, n, code) == [call |-> call, text |-> text, n |-> n, code |-> code]

\* `await ctx.send(...)` of a message without a join code.  Sending to the
\* invoking channel and the typing indicator are taken to succeed: they are
\* the channel over which every other failure is reported.
Send(text) == Effect("ctx.send", text, 0, "")

Call(call) == Effect(call, "", 0, "")

\* No command has been handled yet.
NoCommand ==
    [name |-> "", yearOk |-> TRUE, staff |-> FALSE, before |-> FALSE,
     cached |-> FALSE, fetch |-> "none", participants |-> 0, dm |-> "none",
     effects |-> <<>>, raised |-> ""]

\* The join code of the staff leaderboard, from AocConfig.leaderboards.
StaffJoinCode == "staff-code"

\* The join code _helpers.get_public_join_code assigns.
PublicJoinCode == "public-code"

\* _helpers.fetch_leaderboard(invalidate_cache) on cache c: the cached
\* leaderboard is returned unless the cache is empty or invalidated, in
\* which case the remote API is asked; that request succeeds with n
\* participants (ok) or raises FetchingLeaderboardFailed.
fetch_leaderboard(invalidate_cache, c, ok, n) ==
    IF ~invalidate_cache /\ c # <<>>
    THEN [calls |-> <<Call("fetch_leaderboard")>>, outcome |-> "cached",
          failed |-> FALSE, cache |-> c, participants |-> c[1]]
    ELSE IF ok
    THEN [calls |-> <<Call("fetch_leaderboard"), Call("remote_fetch")>>,
          outcome |-> "ok", failed |-> FALSE, cache |-> <<n>>, participants |-> n]
    ELSE [calls |-> <<Call("fetch_leaderboard"), Call("remote_fetch")>>,
          outcome |-> "failed", failed |-> TRUE, cache |-> <<>>, participants |-> 0]

\* aoc_subscribe_result without the `current_year != AocConfig.year` test.
aoc_subscribe_result_noYearCheck(yearOk, addOk, exists, held) ==
    IF exists /\ held
    THEN [effects |-> <<Call("get_role"), Send("already_subscribed")>>,
          raised |-> "", has_role |-> held]
    ELSE IF ~exists
    THEN [effects |-> <<Call("get_role"), Call("add_roles")>>,
          raised |-> "AttributeError", has_role |-> held]
    ELSE IF ~addOk
    THEN [effects |-> <<Call("get_role"), Call("add_roles")>>,
          raised |-> "HTTPException", has_role |-> held]
    ELSE [effects |-> <<Call("get_role"), Call("add_roles"), Send("subscribed")>>,
          raised |-> "", has_role |-> TRUE]

\* Body of aoc_subscribe for a member who holds the role (held) or not, in a
\* guild where get_role finds the role (exists) or returns None.
\* add_roles(None) raises AttributeError; add_roles may be refused.
aoc_subscribe_result(yearOk, addOk, exists, held) ==
    IF ~yearOk
    THEN [effects |-> <<Send("subscribe_wrong_year")>>,
          raised |-> "", has_role |-> held]
    ELSE IF exists /\ held
    THEN [effects |-> <<Call("get_role"), Send("already_subscribed")>>,
          raised |-> "", has_role |-> held]
    ELSE IF ~exists
    THEN [effects |-> <<Call("get_role"), Call("add_roles")>>,
          raised |-> "AttributeError", has_role |-> held]
    ELSE IF ~addOk
    THEN [effects |-> <<Call("get_role"), Call("add_roles")>>,
          raised |-> "HTTPException", has_role |-> held]
    ELSE [effects |-> <<Call("get_role"), Call("add_roles"), Send("subscribed")>>,
          raised |-> "", has_role |-> TRUE]

\* Body of aoc_unsubscribe.
aoc_unsubscribe_result(removeOk, exists, held) ==
    IF ~(exists /\ held)
    THEN [effects |-> <<Call("get_role"), Send("not_subscribed")>>,
          raised |-> "", has_role |-> held]
    ELSE IF ~removeOk
    THEN [effects |-> <<Call("get_role"), Call("remove_roles")>>,
          raised |-> "HTTPException", has_role |-> held]
    ELSE [effects |-> <<Call("get_role"), Call("remove_roles"), Send("unsubscribed")>>,
          raised |-> "", has_role |-> FALSE]

\* DeliverJoinCode that falls back to the invoking channel when the private
\* message is refused.
DeliverJoinCode_channelFallback(join_code, dm, reactOk) ==
    LET info == Effect("author.send", "join_info", 0, join_code)
    IN  IF dm = "forbidden"
        THEN [effects |-> <<info, Effect("ctx.send", "join_info", 0, join_code)>>,
              raised |-> ""]
        ELSE IF dm = "error"
        THEN [effects |-> <<info>>, raised |-> "HTTPException"]
        ELSE [effects |-> <<info, Call("add_reaction")>>,
              raised |-> IF reactOk THEN "" ELSE "HTTPException"]

\* The try / except discord.errors.Forbidden / else at the end of
\* join_leaderboard: the private message is delivered ("ok"), refused
\* ("forbidden") or fails otherwise ("error"); add_reaction may raise.
DeliverJoinCode(join_code, dm, reactOk) ==
    LET info == Effect("author.send", "join_info", 0, join_code)
    IN  IF dm = "forbidden"
        THEN [effects |-> <<info, Send("enable_dms")>>, raised |-> ""]
        ELSE IF dm = "error"
        THEN [effects |-> <<info>>, raised |-> "HTTPException"]
        ELSE [effects |-> <<info, Call("add_reaction")>>,
              raised |-> IF reactOk THEN "" ELSE "HTTPException"]

\* Body of join_leaderboard.  staff: the staff leaderboard is configured and
\* the author is a helper; code: what get_public_join_code does ("ok", "none"
\* for an empty code, "failed" for FetchingLeaderboardFailed).
join_leaderboard_result(yearOk, staff, code, dm, reactOk) ==
    IF ~yearOk
    THEN [effects |-> <<Send("join_wrong_year")>>, raised |-> ""]
    ELSE IF ~staff /\ code = "failed"
    THEN [effects |-> <<Call("get_public_join_code"), Send("join_code_failed")>>,
          raised |-> ""]
    ELSE IF ~staff /\ code = "none"
    THEN [effects |-> <<Call("get_public_join_code"), Send("join_no_code")>>,
          raised |-> ""]
    ELSE LET join_code == IF staff THEN StaffJoinCode ELSE PublicJoinCode
             lookup == IF staff THEN <<>> ELSE <<Call("get_public_join_code")>>
             d == DeliverJoinCode(join_code, dm, reactOk)
         IN  [effects |-> lookup \o d.effects, raised |-> d.raised]

\* top_count that ignores number_of_participants.
top_count_displayedOnly(displayed_members, number_of_participants) ==
    displayed_members

\* `min(AocConfig.leaderboard_displayed_members, number_of_participants)`.
top_count(displayed_members, number_of_participants) ==
    Min(displayed_members, number_of_participants)

\* Body of aoc_leaderboard.
aoc_leaderboard_result(ok, n, c, displayed_members) ==
    LET f == fetch_leaderboard(FALSE, c, ok, n)
    IN  IF f.failed
        THEN [effects |-> <<Call("typing")>> \o f.calls \o <<Send("leaderboard_failed")>>,
              raised |-> "", cache |-> f.cache, fetch |-> f.outcome,
              participants |-> f.participants]
        ELSE [effects |-> <<Call("typing")>> \o f.calls \o
                          <<Effect("ctx.send", "leaderboard",
                                   top_count(displayed_members, f.participants), "")>>,
              raised |-> "", cache |-> f.cache, fetch |-> f.outcome,
              participants |-> f.participants]

\* private_leaderboard_daily_stats_result without the `return` of the
\* except clause: the table is built from an unbound `leaderboard`.
private_leaderboard_daily_stats_result_noReturn(ok, n, c) ==
    LET f == fetch_leaderboard(FALSE, c, ok, n)
    IN  IF f.failed
        THEN [effects |-> f.calls \o <<Send("stats_failed")>>,
              raised |-> "UnboundLocalError", cache |-> f.cache, fetch |-> f.outcome,
              participants |-> f.participants]
        ELSE [effects |-> f.calls \o <<Call("typing"), Send("stats")>>,
              raised |-> "", cache |-> f.cache, fetch |-> f.outcome,
              participants |-> f.participants]

\* Body of private_leaderboard_daily_stats.
private_leaderboard_daily_stats_result(ok, n, c) ==
    LET f == fetch_leaderboard(FALSE, c, ok, n)
    IN  IF f.failed
        THEN [effects |-> f.calls \o <<Send("stats_failed")>>,
              raised |-> "", cache |-> f.cache, fetch |-> f.outcome,
              participants |-> f.participants]
        ELSE [effects |-> f.calls \o <<Call("typing"), Send("stats")>>,
              raised |-> "", cache |-> f.cache, fetch |-> f.outcome,
              participants |-> f.participants]

\* refresh_leaderboard_result that calls fetch_leaderboard() without
\* invalidate_cache.
refresh_leaderboard_result_cached(ok, n, c) ==
    LET f == fetch_leaderboard(FALSE, c, ok, n)
    IN  [effects |-> <<Call("typing")>> \o f.calls \o
                     <<Send(IF f.failed THEN "refresh_failed" ELSE "refreshed")>>,
         raised |-> "", cache |-> f.cache, fetch |-> f.outcome,
         participants |-> f.participants]

\* Body of refresh_leaderboard.
refresh_leaderboard_result(ok, n, c) ==
    LET f == fetch_leaderboard(TRUE, c, ok, n)
    IN  [effects |-> <<Call("typing")>> \o f.calls \o
                     <<Send(IF f.failed THEN "refresh_failed" ELSE "refreshed")>>,
         raised |-> "", cache |-> f.cache, fetch |-> f.outcome,
         participants |-> f.participants]

aoc_subscribe(yearOk, addOk) ==
    LET r == aoc_subscribe_result(yearOk, addOk, role_exists, has_role)
    IN  /\ has_role' = r.has_role
        /\ last' = [NoCommand EXCEPT !.name = "subscribe", !.yearOk = yearOk,
                                     !.before = has_role, !.effects = r.effects,
                                     !.raised = r.raised]
        /\ UNCHANGED <<role_exists, displayed, cache, bg_vars>>

aoc_unsubscribe(removeOk) ==
    LET r == aoc_unsubscribe_result(removeOk, role_exists, has_role)
    IN  /\ has_role' = r.has_role
        /\ last' = [NoCommand EXCEPT !.name = "unsubscribe", !.before = has_role,
                                     !.effects = r.effects, !.raised = r.raised]
        /\ UNCHANGED <<role_exists, displayed, cache, bg_vars>>

join_leaderboard(yearOk, staff, code, dm, reactOk) ==
    LET r == join_leaderboard_result(yearOk, staff, code, dm, reactOk)
        delivering == \E i \in DOMAIN r.effects : r.effects[i].call = "author.send"
    IN  /\ last' = [NoCommand EXCEPT !.name = "join", !.yearOk = yearOk,
                                     !.staff = staff, !.before = has_role,
                                     !.fetch = IF ~yearOk \/ staff THEN "none"
                                               ELSE IF code = "failed" THEN "failed"
                                               ELSE "ok",
                                     !.dm = IF delivering THEN dm ELSE "none",
                                     !.effects = r.effects, !.raised = r.raised]
        /\ UNCHANGED <<role_exists, has_role, displayed, cache, bg_vars>>

aoc_leaderboard(ok, n) ==
    LET r == aoc_leaderboard_result(ok, n, cache, displayed)
    IN  /\ cache' = r.cache
        /\ last' = [NoCommand EXCEPT !.name = "leaderboard", !.before = has_role,
                                     !.cached = (cache # <<>>),
                                     !.fetch = r.fetch,
                                     !.participants = r.participants,
                                     !.effects = r.effects, !.raised = r.raised]
        /\ UNCHANGED <<role_exists, has_role, displayed, bg_vars>>

private_leaderboard_daily_stats(ok, n) ==
    LET r == private_leaderboard_daily_stats_result(ok, n, cache)
    IN  /\ cache' = r.cache
        /\ last' = [NoCommand EXCEPT !.name = "stats", !.before = has_role,
                                     !.cached = (cache # <<>>),
                                     !.fetch = r.fetch,
                                     !.participants = r.participants,
                                     !.effects = r.effects, !.raised = r.raised]
        /\ UNCHANGED <<role_exists, has_role, displayed, bg_vars>>

refresh_leaderboard(ok, n) ==
    LET r == refresh_leaderboard_result(ok, n, cache)
    IN  /\ cache' = r.cache
        /\ last' = [NoCommand EXCEPT !.name = "refresh", !.before = has_role,
                                     !.cached = (cache # <<>>),
                                     !.fetch = r.fetch,
                                     !.participants = r.participants,
                                     !.effects = r.effects, !.raised = r.raised]
        /\ UNCHANGED <<role_exists, has_role, displayed, bg_vars>>

\* The helper's cache entry expires.
cache_expires ==
    /\ cache # <<>>
    /\ cache' = <<>>
    /\ UNCHANGED <<role_exists, has_role, displayed, last, bg_vars>>

-----------------------------------------------------------------------------
(* AdventOfCode *)

\* cog_unload without `self.status_task.cancel()`.
cog_unload_countdownOnly ==
    /\ ~unloaded
    /\ unloaded' = TRUE
    /\ dc_pc' = IF dc_pc \in Finished THEN dc_pc ELSE "cancelled"
    /\ dc_exit' = IF dc_pc \in Finished THEN dc_exit ELSE "cancelled"
    /\ UNCHANGED <<now, sub, st_vars,
                   dc_wake, dc_tomorrow, dc_retry, dc_dev, dc_found, dc_statuses, dc_sent,
                   dc_fatal, dc_trace, announced>>
    /\ UNCHANGED <<created, cmd_vars>>

\* cog_unload: cancel both tasks; cancelling a finished task has no effect.
cog_unload ==
    /\ ~unloaded
    /\ unloaded' = TRUE
    /\ st_pc' = IF st_pc \in Finished THEN st_pc ELSE "cancelled"
    /\ dc_pc' = IF dc_pc \in Finished THEN dc_pc ELSE "cancelled"
    /\ dc_exit' = IF dc_pc \in Finished THEN dc_exit ELSE "cancelled"
    /\ UNCHANGED <<now, sub, presence, st_wake, st_seconds, st_playing, st_at, st_delay,
                   st_slept,
                   dc_wake, dc_tomorrow, dc_retry, dc_dev, dc_found, dc_statuses, dc_sent,
                   dc_fatal, dc_trace, announced>>
    /\ UNCHANGED <<created, cmd_vars>>

\* TasksCreated for an __init__ that calls create_task on the status
\* coroutine twice.
TasksCreated_statusTwice == [countdown |-> 1, status |-> 2]

\* The calls of loop.create_task in __init__, per coroutine.
TasksCreated == [countdown |-> 1, status |-> 1]

\* __init__: both tasks are created and have not run yet.
Init ==
    /\ now \in StartTimes
    /\ sub \in BOOLEAN
    /\ unloaded = FALSE
    /\ presence = <<>>
    /\ st_pc = "loop" /\ st_wake = now
    /\ st_seconds = 0 /\ st_playing = <<>> /\ st_at = now /\ st_delay = 0
    /\ st_slept = FALSE
    /\ dc_pc = "loop" /\ dc_wake = now /\ dc_exit = ""
    /\ dc_tomorrow = 0 /\ dc_retry = 0 /\ dc_dev = 0 /\ dc_found = <<>>
    /\ dc_statuses = <<>> /\ dc_sent = 0 /\ dc_fatal = "" /\ dc_trace = <<>>
    /\ announced = <<>>
    /\ created = TasksCreated
    /\ role_exists = TRUE /\ has_role = FALSE /\ displayed = MaxParticipants
    /\ cache = <<>> /\ last = NoCommand

StatusStep ==
    \/ st_Loop
    \/ \E ok \in BOOLEAN : st_Presence(ok)

CountdownStep ==
    \/ \E dev \in FirstSleepDevs : dc_Loop(dev)
    \/ \E channel \in BOOLEAN, role \in BOOLEAN : dc_Resolve(channel, role)
    \/ \E ok \in BOOLEAN, status \in {HTTP_OK, HTTP_NOT_FOUND} : dc_Head(ok, status)
    \/ dc_RetrySleep
    \/ \E ok \in BOOLEAN : dc_Send(ok)

Next ==
    \/ st_Loop
    \/ \E ok \in BOOLEAN : st_Presence(ok)
    \/ \E dev \in FirstSleepDevs : dc_Loop(dev)
    \/ \E channel \in BOOLEAN, role \in BOOLEAN : dc_Resolve(channel, role)
    \/ \E ok \in BOOLEAN, status \in {HTTP_OK, HTTP_NOT_FOUND} : dc_Head(ok, status)
    \/ dc_RetrySleep
    \/ \E ok \in BOOLEAN : dc_Send(ok)
    \/ cog_unload
    \/ Tick

Spec == Init /\ [][Next]_vars

\* The event loop runs every task whose await has completed, and time passes.
FairSpec == Spec /\ WF_vars(StatusStep) /\ WF_vars(CountdownStep) /\ WF_vars(Tick)

TypeOK ==
    /\ now \in Nat /\ sub \in BOOLEAN /\ unloaded \in BOOLEAN
    /\ st_pc \in {"loop", "presence"} \cup Finished
    /\ dc_pc \in {"loop", "sleep", "head", "retry_sleep", "send"} \cup Finished
    /\ dc_retry \in 0..POLL_ATTEMPTS
    /\ Len(dc_statuses) <= POLL_ATTEMPTS

-----------------------------------------------------------------------------
(* countdown_status applied once to every clock reading of a day *)

InitPure ==
    /\ now \in DAY..(2 * DAY - 1)
    /\ sub \in BOOLEAN
    /\ unloaded = FALSE
    /\ presence = <<>>
    /\ st_pc = "loop" /\ st_wake = now
    /\ st_seconds = 0 /\ st_playing = <<>> /\ st_at = now /\ st_delay = 0
    /\ st_slept = FALSE
    /\ dc_pc = "loop" /\ dc_wake = now /\ dc_exit = ""
    /\ dc_tomorrow = 0 /\ dc_retry = 0 /\ dc_dev = 0 /\ dc_found = <<>>
    /\ dc_statuses = <<>> /\ dc_sent = 0 /\ dc_fatal = "" /\ dc_trace = <<>>
    /\ announced = <<>>
    /\ created = TasksCreated
    /\ role_exists = TRUE /\ has_role = FALSE /\ displayed = MaxParticipants
    /\ cache = <<>> /\ last = NoCommand

NextPure ==
    \/ st_Loop
    \/ \E ok \in BOOLEAN : st_Presence(ok)

SpecPure == InitPure /\ [][NextPure]_vars

-----------------------------------------------------------------------------
(* The command handlers, invoked in any order by one member *)

InitCmd ==
    /\ now = DAY
    /\ sub = FALSE
    /\ unloaded = FALSE
    /\ presence = <<>>
    /\ st_pc = "loop" /\ st_wake = now
    /\ st_seconds = 0 /\ st_playing = <<>> /\ st_at = now /\ st_delay = 0
    /\ st_slept = FALSE
    /\ dc_pc = "loop" /\ dc_wake = now /\ dc_exit = ""
    /\ dc_tomorrow = 0 /\ dc_retry = 0 /\ dc_dev = 0 /\ dc_found = <<>>
    /\ dc_statuses = <<>> /\ dc_sent = 0 /\ dc_fatal = "" /\ dc_trace = <<>>
    /\ announced = <<>>
    /\ created = TasksCreated
    /\ role_exists \in BOOLEAN /\ has_role = FALSE
    /\ displayed \in 1..MaxParticipants
    /\ cache = <<>> /\ last = NoCommand

NextCmd ==
    \/ \E yearOk \in BOOLEAN, addOk \in BOOLEAN : aoc_subscribe(yearOk, addOk)
    \/ \E removeOk \in BOOLEAN : aoc_unsubscribe(removeOk)
    \/ \E yearOk \in BOOLEAN, staff \in BOOLEAN, code \in {"ok", "none", "failed"},
          dm \in {"ok", "forbidden", "error"}, reactOk \in BOOLEAN :
            join_leaderboard(yearOk, staff, code, dm, reactOk)
    \/ \E ok \in BOOLEAN, n \in 1..MaxParticipants : aoc_leaderboard(ok, n)
    \/ \E ok \in BOOLEAN, n \in 1..MaxParticipants :
            private_leaderboard_daily_stats(ok, n)
    \/ \E ok \in BOOLEAN, n \in 1..MaxParticipants : refresh_leaderboard(ok, n)
    \/ cache_expires

SpecCmd == InitCmd /\ [][NextCmd]_vars

-----------------------------------------------------------------------------
(* Properties *)

AllFailed(statuses) == \A i \in DOMAIN statuses : statuses[i] # 200

\* C1: when the four availability polls of an iteration all return a status
\* other than 200, exactly four polls are made in that iteration (never a
\* fifth), no announcement is sent in it, and the task is in its last retry
\* sleep or has ended normally through the for loop's else branch.
C1_FourFailedPollsEndLoop ==
    /\ Len(dc_statuses) <= 4
    /\ (Len(dc_statuses) = 4 /\ AllFailed(dc_statuses) /\ dc_pc # "cancelled")
          => /\ dc_sent = 0
             /\ dc_pc \in {"retry_sleep", "done"}
             /\ dc_pc = "done" => dc_exit = "puzzle"

C1_Witness ==
    /\ dc_pc = "done" /\ dc_exit = "puzzle"
    /\ Len(dc_statuses) = 4 /\ AllFailed(dc_statuses)

\* C2: no two announcement messages are sent for the same challenge day.
C2_NoDayAnnouncedTwice ==
    \A i, j \in DOMAIN announced : i # j => announced[i] # announced[j]

\* C3: when the sleep before the announcement lasted at least as long as
\* requested, every availability poll and every announcement send happens
\* strictly after the midnight boundary computed at the start of the iteration.
C3_NeverBeforeBoundary ==
    (dc_pc \in {"head", "send"} /\ dc_dev >= 0)
        => StrictlyAfter(now, sub, dc_tomorrow)

\* C8: when the channel lookup fails, or the channel is found and the role
\* lookup fails, the task ends in that iteration, normally, with no
\* availability poll made and no message sent.
C8_UnresolvedEndsLoop ==
    (dc_found # <<>> /\ ~(dc_found[1] /\ dc_found[2]) /\ dc_pc # "cancelled")
        => /\ dc_pc = "done"
           /\ dc_exit = IF dc_found[1] THEN "role" ELSE "channel"
           /\ dc_statuses = <<>>
           /\ dc_sent = 0

C8_Witness ==
    /\ dc_pc = "done" /\ dc_exit = "role"
    /\ dc_found = <<TRUE, FALSE>>

\* C9: once a condition that ends the loop has been met (a failed lookup, four
\* failed polls followed by the last retry sleep, or a window check that found
\* the window closed), the task never runs again and no announcement is sent
\* afterwards, on that day or a later one.
C9_NoAnnouncementAfterEnd ==
    [][dc_fatal # "" => (announced' = announced /\ dc_pc' \in Finished)]_vars

\* The loop ended on a failed lookup or on the poll budget, and the clock has
\* since reached a later moment at which the window is still open.
C9_Witness ==
    /\ dc_fatal \in {"lookup", "puzzle"}
    /\ dc_pc = "done"
    /\ is_in_advent(now)
    /\ now > dc_tomorrow + 3600

\* The smallest multiple of 300 that is not below seconds.
CeilToStep(seconds) == seconds + ((300 - (seconds % 300)) % 300)

\* The status the five phrasings prescribe for an aligned remaining time.
ExpectedPlaying(aligned) ==
    IF aligned = 0 THEN <<"right now!">>
    ELSE IF aligned = 300 THEN <<"in less than ", 5, " minutes">>
    ELSE IF aligned < 3600 THEN <<"in ", aligned \div 60, " minutes">>
    ELSE IF aligned >= 23 * 3600 /\ aligned < 24 * 3600
         THEN <<"since ", 60 - ((aligned - 23 * 3600) \div 60), " minutes ago">>
    ELSE <<"in ", aligned \div 3600, " hours and ", (aligned % 3600) \div 60, " minutes">>

\* C4: the status computed from any remaining time is the one the five
\* phrasings prescribe for its ceiling-aligned value: "right now!" at 0,
\* "in less than 5 minutes" at one step, "in N minutes" below one hour,
\* "since N minutes ago" when hours = 23, "in H hours and N minutes" otherwise.
C4_PhrasingBuckets ==
    st_pc = "presence" => st_playing = ExpectedPlaying(CeilToStep(st_seconds))

C4_Witness ==
    /\ st_pc = "presence"
    /\ st_seconds = 23 * 3600
    /\ st_playing = <<"since ", 60, " minutes ago">>

\* Whole seconds elapsed since the most recent midnight.
SinceMidnight == now % DAY

\* C5 as stated: "since N minutes ago" is published only when the most recent
\* midnight was passed at most one step (300 whole seconds) ago, and at any
\* later time the status is one of the "in ..." phrasings.
C5_SinceOnlyWithinLastStep ==
    st_pc = "presence" =>
        LET withinStep == SinceMidnight <= 300
        IN  /\ st_playing[1] = "since " => withinStep
            /\ ~withinStep => st_playing[1] \in {"in ", "in less than "}

\* C5 as amended: "since N minutes ago" is published only when the most recent
\* midnight was passed less than 65 minutes ago, with N between 5 and 60; at
\* any later time the status is one of the other four phrasings.
C5_SinceOnlyWithinFirstHour ==
    st_pc = "presence" =>
        /\ st_playing[1] = "since " =>
              /\ SinceMidnight < 65 * 60
              /\ st_playing[2] \in 5..60
        /\ SinceMidnight >= 65 * 60 =>
              st_playing[1] \in {"right now!", "in less than ", "in "}

C5_Witness ==
    /\ st_pc = "presence"
    /\ SinceMidnight = 64 * 60
    /\ st_playing = <<"since ", 60, " minutes ago">>

\* The sleep of this iteration, of exactly the requested length, would end
\* later than the midnight that was next when the iteration read the clock.
WakesPastBoundary == StrictlyAfter(st_at + st_delay, sub, Tomorrow(st_at))

\* C6 as stated: for every remaining time the delay is at least 1 s, at most
\* 300 s, and the wake time is not later than the next midnight boundary.
C6_DelayNeverPastBoundary ==
    (st_pc = "loop" /\ st_slept) =>
        /\ st_delay >= 1
        /\ st_delay <= 300
        /\ ~WakesPastBoundary

\* C6 as amended: the delay is at least 1 s and at most 300 s; when at least
\* one whole second remains the wake time is not later than the next midnight
\* boundary; when no whole second remains the delay is a full step.
C6_DelayWithinStep ==
    (st_pc = "loop" /\ st_slept) =>
        /\ st_delay >= 1
        /\ st_delay <= 300
        /\ st_seconds >= 1 => ~WakesPastBoundary
        /\ st_seconds = 0 => st_delay = 300

C6_Witness ==
    /\ st_pc = "loop" /\ st_slept
    /\ st_seconds = 0 /\ st_delay = 300
    /\ WakesPastBoundary

\* C7: after the first sleep, every presence update is computed from a
\* remaining time that is an exact multiple of the step.
C7_UpdatesOnStepGrid ==
    (st_pc = "presence" /\ st_slept) => st_seconds % 300 = 0

\* An update on the grid right after the one published at the midnight.
C7_Witness ==
    /\ st_pc = "presence" /\ st_slept
    /\ presence = <<"right now!">>
    /\ st_seconds = DAY - 300

\* A task at the head of its loop whose window check finds the window closed.
st_ChecksClosed == st_pc = "loop" /\ now >= st_wake /\ ~is_in_advent(now)

dc_ChecksClosed == dc_pc = "loop" /\ now >= dc_wake /\ ~is_in_advent(now)

-----------------------------------------------------------------------------
(* Unload and task creation *)

\* C11: once cog_unload has run both tasks are finished, and no later step
\* publishes a presence, polls the puzzle page or sends an announcement,
\* whatever each task was doing when it was cancelled.
C11_NothingAfterUnload ==
    /\ [](unloaded => (st_pc \in Finished /\ dc_pc \in Finished))
    /\ [][unloaded => /\ presence' = presence
                      /\ dc_statuses' = dc_statuses
                      /\ announced' = announced
                      /\ st_pc' = st_pc
                      /\ dc_pc' = dc_pc]_vars

\* The cog was unloaded while day_countdown was between two polls and
\* countdown_status had not finished.
C11_Witness ==
    /\ unloaded
    /\ st_pc = "cancelled"
    /\ dc_pc = "cancelled"
    /\ dc_statuses # <<>>

\* Tasks of one coroutine that have been created and have not finished.
ActiveTasks(pc, n) == IF pc \in Finished THEN 0 ELSE n

-----------------------------------------------------------------------------
(* The steps that lead to an announcement *)

Polls(k) == [i \in 1..k |-> "poll"]

\* C20: whenever day_countdown sends an announcement, the iteration that
\* sends it has, in this order, found the window open, slept, found the
\* channel, found the role and polled between 1 and 4 times, the last poll
\* and no earlier one returning 200; the day announced is the one computed
\* from the clock reading taken before the sleep.
C20_AnnouncementAfterAllSteps ==
    [][announced' # announced =>
          /\ \E k \in 1..4 :
                /\ dc_trace' = <<"window", "sleep", "channel", "role">>
                                    \o Polls(k) \o <<"send">>
                /\ Len(dc_statuses) = k
                /\ dc_statuses[k] = 200
                /\ \A i \in 1..(k - 1) : dc_statuses[i] # 200
          /\ dc_found = <<TRUE, TRUE>>
          /\ is_in_advent(dc_tomorrow - DAY)
          /\ announced' = Append(announced, DayOf(dc_tomorrow))]_vars

\* An announcement was sent after three failed polls and a fourth that
\* returned 200.
C20_Witness ==
    /\ dc_sent = 1
    /\ Len(dc_statuses) = 4
    /\ dc_trace[Len(dc_trace)] = "send"

-----------------------------------------------------------------------------
(* Subscribe and unsubscribe *)

\* The positions in effects of the calls named call.
CallsOf(effects, call) == {i \in DOMAIN effects : effects[i].call = call}

\* The handler sent the message named text to the invoking channel.
Sent(effects, text) == \E i \in DOMAIN effects : effects[i] = Send(text)

\* C13: with the current year equal to the event year, the member holds the
\* role after every subscribe and does not hold it after every unsubscribe;
\* a subscribe by a member who holds it, and an unsubscribe by one who does
\* not, calls neither add_roles nor remove_roles, leaves the membership as
\* it was, sends the informative message and raises nothing.
C13_SubscriptionIdempotent ==
    /\ (last.name = "subscribe" /\ last.yearOk) =>
          /\ has_role
          /\ last.before =>
                /\ CallsOf(last.effects, "add_roles") = {}
                /\ Sent(last.effects, "already_subscribed")
                /\ last.raised = ""
    /\ last.name = "unsubscribe" =>
          /\ ~has_role
          /\ ~last.before =>
                /\ CallsOf(last.effects, "remove_roles") = {}
                /\ Sent(last.effects, "not_subscribed")
                /\ last.raised = ""

\* C14: a subscribe issued when the current year is not the event year
\* sends the rejection message and does nothing else: no role lookup, no
\* add_roles, and the membership is what it was, held or not.
C14_WrongYearSubscribeChangesNothing ==
    (last.name = "subscribe" /\ ~last.yearOk) =>
        /\ last.effects = <<Send("subscribe_wrong_year")>>
        /\ has_role = last.before
        /\ last.raised = ""

\* A member who holds the role subscribed in a year that is not the event
\* year.
C14_Witness ==
    /\ last.name = "subscribe"
    /\ ~last.yearOk
    /\ last.before
    /\ has_role

-----------------------------------------------------------------------------
(* Failures of external calls *)

\* C15: no handler lets the failure of an external call propagate: every
\* command handled has ended without raising.
C15_NoHandlerRaises == last.raised = ""

\* The calls a member can observe, or that change the member.
Visible == {"ctx.send", "author.send", "add_reaction", "add_roles", "remove_roles"}

VisibleCalls(effects) == {i \in DOMAIN effects : effects[i].call \in Visible}

\* The message each command sends when the leaderboard cannot be fetched.
FetchFailedText(name) ==
    CASE name = "join" -> "join_code_failed"
      [] name = "leaderboard" -> "leaderboard_failed"
      [] name = "stats" -> "stats_failed"
      [] name = "refresh" -> "refresh_failed"
      [] OTHER -> ""

\* C16: when the fetch made by leaderboard, stats, refresh or a non-staff
\* join fails with FetchingLeaderboardFailed, the handler makes exactly one
\* visible call, the send of that command's error message, and returns
\* without raising.
C16_FetchFailureSendsOneMessage ==
    last.fetch = "failed" =>
        /\ last.name \in {"join", "leaderboard", "stats", "refresh"}
        /\ \E i \in DOMAIN last.effects :
              /\ VisibleCalls(last.effects) = {i}
              /\ last.effects[i] = Send(FetchFailedText(last.name))
        /\ last.raised = ""

\* The stats command could not fetch the leaderboard.
C16_Witness ==
    /\ last.name = "stats"
    /\ last.fetch = "failed"
    /\ Sent(last.effects, "stats_failed")

-----------------------------------------------------------------------------
(* The join code *)

\* C17: the join command puts the join code in a private message only: no
\* message sent to the invoking channel contains it.  When the private
\* message is refused the handler sends the enable-DMs message to the
\* channel and does not call add_reaction; it calls add_reaction exactly
\* when the private message was delivered.
C17_JoinCodeOnlyInPrivate ==
    last.name = "join" =>
        /\ \A i \in DOMAIN last.effects :
              last.effects[i].code # "" => last.effects[i].call = "author.send"
        /\ last.dm = "forbidden" =>
              /\ Sent(last.effects, "enable_dms")
              /\ CallsOf(last.effects, "add_reaction") = {}
              /\ last.raised = ""
        /\ CallsOf(last.effects, "add_reaction") # {} <=> last.dm = "ok"

\* A non-staff member with private messages disabled asked for the join
\* code.
C17_Witness ==
    /\ last.name = "join"
    /\ ~last.staff
    /\ last.dm = "forbidden"
    /\ CallsOf(last.effects, "author.send") # {}

-----------------------------------------------------------------------------
(* The leaderboard *)

\* C18: every refresh asks fetch_leaderboard to invalidate the cache, so
\* the remote API is asked even when a leaderboard is cached, and the
\* success message is sent only when that request succeeded.
C18_RefreshBypassesCache ==
    last.name = "refresh" =>
        /\ CallsOf(last.effects, "remote_fetch") # {}
        /\ Sent(last.effects, "refreshed") => last.fetch = "ok"
        /\ Sent(last.effects, "refreshed") \/ Sent(last.effects, "refresh_failed")

\* A refresh was handled while a leaderboard was cached, and succeeded.
C18_Witness ==
    /\ last.name = "refresh"
    /\ last.cached
    /\ last.fetch = "ok"
    /\ Sent(last.effects, "refreshed")

\* C19: the number in the "top N" header is the smaller of
\* leaderboard_displayed_members and number_of_participants: it is never
\* more than the number of participants, and 10 participants with 5
\* displayed give "top 5".
C19_TopCountIsMin ==
    \A i \in DOMAIN last.effects :
        last.effects[i].text = "leaderboard" =>
            LET N == last.effects[i].n
            IN  /\ N <= last.participants
                /\ N <= displayed
                /\ N = last.participants \/ N = displayed
                /\ (last.participants = 10 /\ displayed = 5) => N = 5

\* The leaderboard was shown with fewer participants than the configured
\* number of displayed members.
C19_Witness ==
    /\ last.name = "leaderboard"
    /\ last.participants < displayed
    /\ \E i \in DOMAIN last.effects :
          last.effects[i].text = "leaderboard" /\ last.effects[i].n = last.participants

====
